---- MODULE Spec2Model ----
(***************************************************************************)
(* Model of backend/app/main.py: the two upload handlers analyze_csv and   *)
(* analyze_json and the analysis function analyze_dataframe.               *)
(*                                                                         *)
(* A DataFrame is [nrows, cols]; a column is [name, dtype, cells]; a cell  *)
(* is a record [t, v] (t in "num", "na", "str", "bool", "list").  pandas   *)
(* calls are modelled by what they compute on such a frame.  Real numbers  *)
(* are kept exact: a quotient is a record [null, n, d], a correlation is   *)
(* its sign and its square as a fraction.                                  *)
(***************************************************************************)
EXTENDS Integers, Sequences, FiniteSets, TLC

VARIABLES pc, kind, filename, df, report, status, calls

vars == <<pc, kind, filename, df, report, status, calls>>

----------------------------------------------------------------------------
(* Bounds of the explored inputs *)

\* general frames: R rows and C columns with 1 <= C <= MaxCols, R * C <= MaxCells
MaxCells == 6
MaxCols == 2
\* wide all-numeric frames: up to MaxWideCols columns of WideRows rows
MaxWideCols == 7

----------------------------------------------------------------------------
(* Cells *)

Num(n) == [t |-> "num", v |-> n]
Str(k) == [t |-> "str", v |-> k]
Bool(b) == [t |-> "bool", v |-> b]
NaN == [t |-> "na", v |-> 0]
Nested == [t |-> "list", v |-> 0]

\* pd.isna / pd.notna on a cell
isna(c) == c.t = "na"

ColNames == <<"a", "b", "c", "d", "e", "f", "g", "h", "i", "j">>

----------------------------------------------------------------------------
(* Generic helpers on sequences *)

RECURSIVE SumFrom(_, _)
SumFrom(s, i) == IF i > Len(s) THEN 0 ELSE s[i] + SumFrom(s, i + 1)

SumSeq(s) == SumFrom(s, 1)

\* s[:n]
Take(s, n) == SubSeq(s, 1, IF Len(s) < n THEN Len(s) ELSE n)

RECURSIVE Gcd(_, _)
Gcd(x, y) == IF y = 0 THEN x ELSE Gcd(y, x % y)

----------------------------------------------------------------------------
(* Program constants *)

\* value_counts.head(5)
TopValues == 5
\* df.head(5)
SampleRows == 5
\* [:20]
MaxCorrelations == 20
\* abs(c["corr"]) >= 0.5, as the fraction ThresholdNum / ThresholdDen
ThresholdNum == 1
ThresholdDen == 2

----------------------------------------------------------------------------
(* Exact numbers of the report *)

Null == [null |-> TRUE, n |-> 0, d |-> 1]
Rat(x, y) == [null |-> FALSE, n |-> x, d |-> y]

----------------------------------------------------------------------------
(* The DataFrame *)

num_rows(d) == d.nrows
num_cols(d) == Len(d.cols)

\* list(df.columns)
columns(d) == [k \in 1..Len(d.cols) |-> d.cols[k].name]
ColumnSet(d) == {d.cols[k].name : k \in 1..Len(d.cols)}
ColumnIndex(d, nm) == CHOOSE k \in 1..Len(d.cols) : d.cols[k].name = nm
Column(d, nm) == d.cols[ColumnIndex(d, nm)]

\* the i-th row, as the tuple of its cells in column order
Row(d, i) == [k \in 1..Len(d.cols) |-> d.cols[k].cells[i]]

\* df.empty
empty(d) == num_rows(d) = 0 \/ num_cols(d) = 0

\* {column: str(dtype) for column, dtype in df.dtypes.items()}
dtypes(d) == [nm \in ColumnSet(d) |-> Column(d, nm).dtype]

\* int(df.memory_usage(deep=True).sum()) if num_cols > 0 else 0
\* (the column buffers only: 8 bytes per int64/float64 cell and per object
\* pointer, 1 per bool cell; the index and the text payload are left out)
ItemSize(dt) == IF dt = "bool" THEN 1 ELSE 8
memory_usage_bytes(d) ==
    IF num_cols(d) > 0
    THEN SumSeq([k \in 1..Len(d.cols) |-> ItemSize(d.cols[k].dtype) * num_rows(d)])
    ELSE 0

----------------------------------------------------------------------------
(* Missing values *)

\* df.isna().sum()[column]
missing_count(col) ==
    SumSeq([i \in 1..Len(col.cells) |-> IF isna(col.cells[i]) THEN 1 ELSE 0])

\* faulty variant: the entries are built whatever the shape
per_column_missing_unguarded(d) ==
    [nm \in ColumnSet(d) |->
        [count |-> missing_count(Column(d, nm)),
         pct   |-> Rat(missing_count(Column(d, nm)) * 100, num_rows(d))]]

per_column_missing(d) ==
    IF num_rows(d) > 0 /\ num_cols(d) > 0
    THEN [nm \in ColumnSet(d) |->
            LET missing_count_ == missing_count(Column(d, nm))
            IN [count |-> missing_count_,
                pct   |-> Rat(missing_count_ * 100, num_rows(d))]]
    ELSE [nm \in {} |-> 0]

total_missing_cells(d) ==
    IF num_rows(d) > 0 /\ num_cols(d) > 0
    THEN SumSeq([k \in 1..Len(d.cols) |-> missing_count(d.cols[k])])
    ELSE 0

missing_cells_pct(d) ==
    IF num_rows(d) > 0 /\ num_cols(d) > 0
    THEN Rat(total_missing_cells(d) * 100, num_rows(d) * num_cols(d))
    ELSE Rat(0, 1)

----------------------------------------------------------------------------
(* Duplicates *)

\* a cell that cannot be hashed (a JSON array or object)
Unhashable(d) ==
    \E k \in 1..Len(d.cols) : \E i \in 1..Len(d.cols[k].cells) :
        d.cols[k].cells[i].t = "list"

\* df.duplicated(): empty when the frame is empty; otherwise the rows are
\* scanned in order and a row is marked once an equal row has been seen
RECURSIVE MarkSeen(_, _, _)
MarkSeen(d, i, seen) ==
    IF i > num_rows(d) THEN <<>>
    ELSE <<Row(d, i) \in seen>> \o MarkSeen(d, i + 1, seen \cup {Row(d, i)})

\* faulty variant: the rows are scanned even when the frame has no column
duplicated_any_frame(d) == MarkSeen(d, 1, {})

\* faulty variant: keep=False, every row that has an equal row is marked
duplicated_keep_false(d) ==
    IF empty(d) THEN <<>>
    ELSE [i \in 1..num_rows(d) |->
            \E j \in 1..num_rows(d) : j # i /\ Row(d, j) = Row(d, i)]

duplicated(d) == IF empty(d) THEN <<>> ELSE MarkSeen(d, 1, {})

\* df.duplicated() raises TypeError on a cell that cannot be hashed
DuplicatedRaises(d) == num_rows(d) > 0 /\ ~empty(d) /\ Unhashable(d)

duplicate_rows(d) ==
    IF num_rows(d) > 0
    THEN LET marks == duplicated(d)
         IN SumSeq([i \in 1..Len(marks) |-> IF marks[i] THEN 1 ELSE 0])
    ELSE 0

----------------------------------------------------------------------------
(* Column classification *)

\* np.number
NumberDtypes == {"int64", "float64"}
\* ["object", "category", "string"]
TextDtypes == {"object", "category", "string"}

\* df.select_dtypes(include=...).columns.tolist(): the names, in column order
RECURSIVE SelectFrom(_, _, _)
SelectFrom(d, include, k) ==
    IF k > Len(d.cols) THEN <<>>
    ELSE IF d.cols[k].dtype \in include
         THEN <<d.cols[k].name>> \o SelectFrom(d, include, k + 1)
         ELSE SelectFrom(d, include, k + 1)

select_dtypes(d, include) == SelectFrom(d, include, 1)

\* faulty variant: bool columns selected with the numbers
numeric_columns_with_bool(d) == select_dtypes(d, NumberDtypes \cup {"bool"})

numeric_columns(d) == select_dtypes(d, NumberDtypes)
categorical_columns(d) == select_dtypes(d, TextDtypes)

----------------------------------------------------------------------------
(* Numeric summary: df[numeric_columns].describe() *)

\* the values of the cells that are not missing, in row order
RECURSIVE Present(_)
Present(cells) ==
    IF cells = <<>> THEN <<>>
    ELSE IF isna(Head(cells)) THEN Present(Tail(cells))
         ELSE <<Head(cells).v>> \o Present(Tail(cells))

RECURSIVE InsertAsc(_, _)
InsertAsc(s, x) ==
    IF s = <<>> THEN <<x>>
    ELSE IF x < Head(s) THEN <<x>> \o s
         ELSE <<Head(s)>> \o InsertAsc(Tail(s), x)

RECURSIVE SortAsc(_)
SortAsc(s) == IF s = <<>> THEN <<>> ELSE InsertAsc(SortAsc(Tail(s)), Head(s))

\* the quartile k/4 of the sorted values xs, by linear interpolation
Quantile(xs, k) ==
    IF xs = <<>> THEN Null
    ELSE LET pos == (Len(xs) - 1) * k
             lo  == (pos \div 4) + 1
             rem == pos % 4
             hi  == IF rem = 0 THEN lo ELSE lo + 1
         IN Rat(4 * xs[lo] + rem * (xs[hi] - xs[lo]), 4)

StatNames == <<"count", "mean", "std", "min", "25%", "50%", "75%", "max">>

\* one row of describe(); std is given by its square, the sample variance
describe(col) ==
    LET xs  == Present(col.cells)
        n   == Len(xs)
        sx  == SumSeq(xs)
        sxx == SumSeq([i \in 1..n |-> xs[i] * xs[i]])
        srt == SortAsc(xs)
    IN [stat \in {StatNames[i] : i \in 1..Len(StatNames)} |->
          CASE stat = "count" -> Rat(n, 1)
            [] stat = "mean"  -> IF n = 0 THEN Null ELSE Rat(sx, n)
            [] stat = "std"   -> IF n < 2 THEN Null ELSE Rat(n * sxx - sx * sx, n * (n - 1))
            [] stat = "min"   -> IF n = 0 THEN Null ELSE Rat(srt[1], 1)
            [] stat = "25%"   -> Quantile(srt, 1)
            [] stat = "50%"   -> Quantile(srt, 2)
            [] stat = "75%"   -> Quantile(srt, 3)
            [] stat = "max"   -> IF n = 0 THEN Null ELSE Rat(srt[n], 1)]

\* None for NaN, float(value) otherwise
to_float(value) == IF value.null THEN Null ELSE value

numeric_summary(d) ==
    LET nc == numeric_columns(d)
    IN [nm \in {nc[i] : i \in 1..Len(nc)} |->
          LET row == describe(Column(d, nm))
          IN [stat \in DOMAIN row |-> to_float(row[stat])]]

----------------------------------------------------------------------------
(* Categorical summary *)

\* astype("string"): a missing cell stays missing, text stays text, any
\* other value becomes the text of its str()
astype_string(c) ==
    IF isna(c) THEN NaN
    ELSE IF c.t = "str" THEN c
    ELSE [t |-> "str", v |-> 0 - 1 - c.v]

\* the distinct values of a list, in order of first occurrence
RECURSIVE Distinct(_, _)
Distinct(s, seen) ==
    IF s = <<>> THEN <<>>
    ELSE IF Head(s) \in seen THEN Distinct(Tail(s), seen)
         ELSE <<Head(s)>> \o Distinct(Tail(s), seen \cup {Head(s)})

Occurrences(s, x) == Cardinality({i \in 1..Len(s) : s[i] = x})

\* stable sort of [value, count] entries by non-increasing count
RECURSIVE InsertByCount(_, _)
InsertByCount(s, x) ==
    IF s = <<>> THEN <<x>>
    ELSE IF Head(s).count < x.count THEN <<x>> \o s
         ELSE <<Head(s)>> \o InsertByCount(Tail(s), x)

RECURSIVE SortByCount(_)
SortByCount(s) ==
    IF s = <<>> THEN <<>>
    ELSE InsertByCount(SortByCount(SubSeq(s, 1, Len(s) - 1)), s[Len(s)])

\* faulty variant: value_counts() with its default dropna=True
value_counts_dropna(col) ==
    LET strs == [i \in 1..Len(col.cells) |-> astype_string(col.cells[i])]
        vals == Distinct(strs, {NaN})
    IN SortByCount([i \in 1..Len(vals) |->
                      [value |-> vals[i], count |-> Occurrences(strs, vals[i])]])

\* df[column].astype("string").value_counts(dropna=False)
value_counts(col) ==
    LET strs == [i \in 1..Len(col.cells) |-> astype_string(col.cells[i])]
        vals == Distinct(strs, {})
    IN SortByCount([i \in 1..Len(vals) |->
                      [value |-> vals[i], count |-> Occurrences(strs, vals[i])]])

\* the top_values list: value_counts.head(5), each with its percentage
top_values(col, total) ==
    LET head == Take(value_counts(col), TopValues)
    IN [i \in 1..Len(head) |->
          [value |-> head[i].value,
           count |-> head[i].count,
           pct   |-> Rat(head[i].count * 100, total)]]

\* df[column].nunique(dropna=True)
nunique(col) ==
    Cardinality({col.cells[i] : i \in {j \in 1..Len(col.cells) : ~isna(col.cells[j])}})

categorical_summary(d) ==
    LET cc    == categorical_columns(d)
        total == IF num_rows(d) # 0 THEN num_rows(d) ELSE 1
    IN [nm \in {cc[i] : i \in 1..Len(cc)} |->
          [unique     |-> nunique(Column(d, nm)),
           top_values |-> top_values(Column(d, nm), total)]]

----------------------------------------------------------------------------
(* Correlations *)

\* a correlation coefficient: NaN, or its sign and its square p / q in
\* lowest terms
NaNCorr == [nan |-> TRUE, sgn |-> 0, p |-> 0, q |-> 1]

Sign(x) == IF x < 0 THEN 0 - 1 ELSE IF x > 0 THEN 1 ELSE 0

\* one cell of df[numeric_columns].corr(): Pearson's coefficient over the
\* rows where both columns are present; NaN when a variance is zero
corr(x, y) ==
    LET R    == Len(x.cells)
        both(i) == ~isna(x.cells[i]) /\ ~isna(y.cells[i])
        xv(i) == IF both(i) THEN x.cells[i].v ELSE 0
        yv(i) == IF both(i) THEN y.cells[i].v ELSE 0
        n    == SumSeq([i \in 1..R |-> IF both(i) THEN 1 ELSE 0])
        sx   == SumSeq([i \in 1..R |-> xv(i)])
        sy   == SumSeq([i \in 1..R |-> yv(i)])
        sxx  == SumSeq([i \in 1..R |-> xv(i) * xv(i)])
        syy  == SumSeq([i \in 1..R |-> yv(i) * yv(i)])
        sxy  == SumSeq([i \in 1..R |-> xv(i) * yv(i)])
        cov  == n * sxy - sx * sy
        vx   == n * sxx - sx * sx
        vy   == n * syy - sy * sy
        g    == Gcd(cov * cov, vx * vy)
    IN IF n = 0 \/ vx * vy = 0 THEN NaNCorr
       ELSE [nan |-> FALSE, sgn |-> Sign(cov),
             p |-> (cov * cov) \div g, q |-> (vx * vy) \div g]

\* abs(a) < abs(b) and abs(a) >= 0.5 on coefficients that are not NaN
AbsLess(a, b) == a.p * b.q < b.p * a.q
AboveThreshold(c) == c.p * ThresholdDen * ThresholdDen >= ThresholdNum * ThresholdNum * c.q

\* the nested loops over i < j: every pair whose coefficient is not NaN
RECURSIVE PairLoop(_, _, _, _)
PairLoop(d, cols, i, j) ==
    IF i > Len(cols) THEN <<>>
    ELSE IF j > Len(cols) THEN PairLoop(d, cols, i + 1, i + 2)
    ELSE LET corr_value == corr(Column(d, cols[i]), Column(d, cols[j]))
         IN IF ~corr_value.nan
            THEN <<[col_a |-> cols[i], col_b |-> cols[j], corr |-> corr_value]>>
                     \o PairLoop(d, cols, i, j + 1)
            ELSE PairLoop(d, cols, i, j + 1)

\* correlations.sort(key=lambda item: abs(item["corr"]), reverse=True)
RECURSIVE InsertByAbs(_, _)
InsertByAbs(s, x) ==
    IF s = <<>> THEN <<x>>
    ELSE IF AbsLess(Head(s).corr, x.corr) THEN <<x>> \o s
         ELSE <<Head(s)>> \o InsertByAbs(Tail(s), x)

RECURSIVE SortByAbs(_)
SortByAbs(s) ==
    IF s = <<>> THEN <<>>
    ELSE InsertByAbs(SortByAbs(SubSeq(s, 1, Len(s) - 1)), s[Len(s)])

\* [c for c in correlations if abs(c["corr"]) >= 0.5]
RECURSIVE KeepStrong(_)
KeepStrong(s) ==
    IF s = <<>> THEN <<>>
    ELSE IF AboveThreshold(Head(s).corr) THEN <<Head(s)>> \o KeepStrong(Tail(s))
         ELSE KeepStrong(Tail(s))

\* faulty variant: no cut at 20
correlations_untruncated(d) ==
    LET cols == numeric_columns(d)
    IN IF Len(cols) >= 2
       THEN KeepStrong(SortByAbs(PairLoop(d, cols, 1, 2)))
       ELSE <<>>

\* faulty variant: the cut at 20 comes before the sort
correlations_cut_first(d) ==
    LET cols == numeric_columns(d)
    IN IF Len(cols) >= 2
       THEN SortByAbs(Take(KeepStrong(PairLoop(d, cols, 1, 2)), MaxCorrelations))
       ELSE <<>>

correlations(d) ==
    LET cols == numeric_columns(d)
    IN IF Len(cols) >= 2
       THEN Take(KeepStrong(SortByAbs(PairLoop(d, cols, 1, 2))), MaxCorrelations)
       ELSE <<>>

----------------------------------------------------------------------------
(* Sample *)

\* df.head(n)
head(d, n) ==
    LET r == IF num_rows(d) < n THEN num_rows(d) ELSE n
    IN [nrows |-> r,
        cols  |-> [k \in 1..Len(d.cols) |->
                     [name |-> d.cols[k].name, dtype |-> d.cols[k].dtype,
                      cells |-> SubSeq(d.cols[k].cells, 1, r)]]]

\* to_dict(orient="records"): one mapping per tuple of itertuples(), which
\* yields nothing for a frame without columns
to_dict_records(d) ==
    IF num_cols(d) = 0 THEN <<>>
    ELSE [i \in 1..num_rows(d) |-> [nm \in ColumnSet(d) |-> Column(d, nm).cells[i]]]

\* faulty variant: every row, without head(5)
sample_records_whole(d) == IF num_rows(d) > 0 THEN to_dict_records(d) ELSE <<>>

sample_records(d) == IF num_rows(d) > 0 THEN to_dict_records(head(d, SampleRows)) ELSE <<>>

----------------------------------------------------------------------------
(* analyze_dataframe *)

analyze_dataframe(d) ==
    [shape |-> [rows |-> num_rows(d), columns |-> num_cols(d)],
     columns |-> columns(d),
     dtypes |-> dtypes(d),
     memory_usage_bytes |-> memory_usage_bytes(d),
     missing |-> [per_column |-> per_column_missing(d),
                  total_missing_cells |-> total_missing_cells(d),
                  missing_cells_pct |-> missing_cells_pct(d)],
     duplicates |-> [row_duplicates |-> duplicate_rows(d)],
     numeric_summary |-> numeric_summary(d),
     categorical_summary |-> categorical_summary(d),
     correlations |-> correlations(d),
     sample |-> sample_records(d)]

\* an exception leaves analyze_dataframe
analyze_raises(d) == DuplicatedRaises(d)

----------------------------------------------------------------------------
(* The inputs explored *)

\* file names, as lists of characters
Filenames ==
    { <<"d", ".", "c", "s", "v">>, <<"d", ".", "t", "s", "v">>,
      <<"d", ".", "t", "x", "t">>, <<"d", ".", "C", "S", "V">>, <<"c", "s", "v">> }

\* the values of a cell in a column of the given dtype; the text values are
\* numbered in order of first appearance, so a cell of an object column that
\* has shown `used` distinct texts holds one of them, the next one, or nothing
CellsAt(dt, used) ==
    CASE dt = "int64"   -> {Num(0), Num(1), Num(2)}
      [] dt = "float64" -> {Num(0), Num(1), NaN}
      [] dt = "object"  -> {Str(k) : k \in 1..(used + 1)} \cup {NaN}
      [] dt = "bool"    -> {Bool(0), Bool(1)}

Used(c, used) == IF c.t = "str" /\ c.v > used THEN c.v ELSE used

RECURSIVE CellLists(_, _)
CellLists(dt, R) ==
    IF R = 0 THEN {[cells |-> <<>>, used |-> 0]}
    ELSE UNION {{[cells |-> Append(s.cells, c), used |-> Used(c, s.used)]
                    : c \in CellsAt(dt, s.used)} : s \in CellLists(dt, R - 1)}

Dtypes == {"int64", "float64", "object", "bool"}

TypedColumns(R) ==
    UNION {{[dtype |-> dt, cells |-> s.cells] : s \in CellLists(dt, R)} : dt \in Dtypes}

\* the frame of R rows whose C columns are f[1] .. f[C]
Frame(R, C, f) ==
    [nrows |-> R,
     cols  |-> [k \in 1..C |-> [name |-> ColNames[k], dtype |-> f[k].dtype,
                                cells |-> f[k].cells]]]

Shapes == {rc \in (1..MaxCells) \X (1..MaxCols) : rc[1] * rc[2] <= MaxCells}

\* frames of mixed columns
IsGeneralFrame(d) ==
    \E rc \in Shapes : \E f \in [1..rc[2] -> TypedColumns(rc[1])] :
        d = Frame(rc[1], rc[2], f)

\* wide frames of three rows and int64 columns: any of three columns first,
\* then columns drawn from the last two (coefficients 1, -1/2, sqrt(3)/2, 0)
WideCells == <<<<Num(0), Num(1), Num(2)>>, <<Num(0), Num(0), Num(1)>>, <<Num(0), Num(1), Num(0)>>>>

IsWideFrame(d) ==
    \E C \in (MaxCols + 1)..MaxWideCols : \E first \in 1..3 : \E rest \in [2..C -> 2..3] :
        d = Frame(3, C, [k \in 1..C |->
                           [dtype |-> "int64",
                            cells |-> WideCells[IF k = 1 THEN first ELSE rest[k]]]])

\* a header without rows: read_csv gives every column the dtype object
IsHeaderOnlyFrame(d) ==
    \E C \in 1..MaxCols :
        d = Frame(0, C, [k \in 1..C |-> [dtype |-> "object", cells |-> <<>>]])

\* records without keys: rows and no column
IsKeylessFrame(d) == \E R \in 0..MaxCells : d = [nrows |-> R, cols |-> <<>>]

\* records holding a JSON array as a value: an object column with such cells
IsNestedFrame(d) ==
    \E R \in 1..2 : \E cs \in [1..R -> {Str(1), Nested}] :
        /\ \E i \in 1..R : cs[i] = Nested
        /\ d = Frame(R, 1, <<[dtype |-> "object", cells |-> cs]>>)

\* what pd.read_csv returns on content it can parse (at least one column)
IsCsvFrame(d) == IsGeneralFrame(d) \/ IsWideFrame(d) \/ IsHeaderOnlyFrame(d)

\* what pd.DataFrame(payload.records) returns on records it can arrange
IsJsonFrame(d) ==
    IsGeneralFrame(d) \/ IsWideFrame(d) \/ IsKeylessFrame(d) \/ IsNestedFrame(d)

----------------------------------------------------------------------------
(* The request handlers *)

NoDf == [nrows |-> 0, cols |-> <<>>]
NoReport == [none |-> TRUE]

endswith(s, suffix) ==
    Len(s) >= Len(suffix) /\ SubSeq(s, Len(s) - Len(suffix) + 1, Len(s)) = suffix

\* faulty variant: the suffix compared without regard to case
SuffixOk_ignoring_case(fn) ==
    \E suffix \in {<<".", "c", "s", "v">>, <<".", "t", "s", "v">>,
                   <<".", "C", "S", "V">>, <<".", "T", "S", "V">>} : endswith(fn, suffix)

\* file.filename.endswith((".csv", ".tsv"))
SuffixOk(fn) == endswith(fn, <<".", "c", "s", "v">>) \/ endswith(fn, <<".", "t", "s", "v">>)

Init ==
    /\ pc = "idle"
    /\ kind = "none"
    /\ filename = <<>>
    /\ df = NoDf
    /\ report = NoReport
    /\ status = 0
    /\ calls = <<>>

\* POST /analyze/csv arrives with an uploaded file
ReceiveCsv ==
    /\ pc = "idle"
    /\ \E fn \in Filenames : filename' = fn
    /\ kind' = "csv"
    /\ pc' = "csv_suffix"
    /\ UNCHANGED <<df, report, status, calls>>

\* the suffix check fails: HTTPException(400)
CsvReject ==
    /\ pc = "csv_suffix"
    /\ ~SuffixOk(filename)
    /\ status' = 400
    /\ pc' = "done"
    /\ UNCHANGED <<kind, filename, df, report, calls>>

\* file.read() or pd.read_csv raises: HTTPException(400)
CsvParseFail ==
    /\ pc = "csv_suffix"
    /\ SuffixOk(filename)
    /\ calls' = Append(calls, "read_csv")
    /\ status' = 400
    /\ pc' = "done"
    /\ UNCHANGED <<kind, filename, df, report>>

\* pd.read_csv returns a frame
CsvParseOk ==
    /\ pc = "csv_suffix"
    /\ SuffixOk(filename)
    /\ calls' = Append(calls, "read_csv")
    /\ IsCsvFrame(df')
    /\ pc' = "analyze"
    /\ UNCHANGED <<kind, filename, report, status>>

\* POST /analyze/json arrives with a validated RecordsPayload
ReceiveJson ==
    /\ pc = "idle"
    /\ kind' = "json"
    /\ pc' = "json_build"
    /\ UNCHANGED <<filename, df, report, status, calls>>

\* pd.DataFrame(payload.records) raises: HTTPException(400)
JsonBuildFail ==
    /\ pc = "json_build"
    /\ calls' = Append(calls, "DataFrame")
    /\ status' = 400
    /\ pc' = "done"
    /\ UNCHANGED <<kind, filename, df, report>>

\* pd.DataFrame(payload.records) returns a frame
JsonBuildOk ==
    /\ pc = "json_build"
    /\ calls' = Append(calls, "DataFrame")
    /\ IsJsonFrame(df')
    /\ pc' = "analyze"
    /\ UNCHANGED <<kind, filename, report, status>>

\* return analyze_dataframe(df): the report is the 200 response
AnalyzeReturn ==
    /\ pc = "analyze"
    /\ ~analyze_raises(df)
    /\ calls' = Append(calls, "analyze_dataframe")
    /\ report' = analyze_dataframe(df)
    /\ status' = 200
    /\ pc' = "done"
    /\ UNCHANGED <<kind, filename, df>>

\* analyze_dataframe raises outside any try block: the server answers 500
AnalyzeRaise ==
    /\ pc = "analyze"
    /\ analyze_raises(df)
    /\ calls' = Append(calls, "analyze_dataframe")
    /\ status' = 500
    /\ pc' = "done"
    /\ UNCHANGED <<kind, filename, df, report>>

\* the response is sent; the frame and the report are discarded
Respond ==
    /\ pc = "done"
    /\ pc' = "idle"
    /\ kind' = "none"
    /\ filename' = <<>>
    /\ df' = NoDf
    /\ report' = NoReport
    /\ status' = 0
    /\ calls' = <<>>

Next ==
    \/ ReceiveCsv
    \/ CsvReject
    \/ CsvParseFail
    \/ CsvParseOk
    \/ ReceiveJson
    \/ JsonBuildFail
    \/ JsonBuildOk
    \/ AnalyzeReturn
    \/ AnalyzeRaise
    \/ Respond

Spec == Init /\ [][Next]_vars

----------------------------------------------------------------------------
(* Properties *)

\* the request has been answered 200: report is analyze_dataframe's result on df
Answered == pc = "done" /\ status = 200

R_ == num_rows(df)
C_ == num_cols(df)

Min(x, y) == IF x < y THEN x ELSE y

\* the exact number q is 0.0
IsZero(q) == ~q.null /\ q.n = 0

IsNumericCol(k) == df.cols[k].dtype \in {"int64", "float64"}
IsTextCol(k) == df.cols[k].dtype = "object"

NumericNames == {df.cols[k].name : k \in {j \in 1..C_ : IsNumericCol(j)}}
TextNames == {df.cols[k].name : k \in {j \in 1..C_ : IsTextCol(j)}}

MissingIn(k) == Cardinality({i \in 1..R_ : df.cols[k].cells[i] = NaN})

\* C1 (as stated): a report on a frame with no rows or no columns has
\* missing_cells_pct 0.0, row_duplicates 0, an empty sample and empty numeric
\* and categorical summaries.
C1_Original ==
    (Answered /\ (R_ = 0 \/ C_ = 0)) =>
        /\ IsZero(report.missing.missing_cells_pct)
        /\ report.duplicates.row_duplicates = 0
        /\ report.sample = <<>>
        /\ DOMAIN report.numeric_summary = {}
        /\ DOMAIN report.categorical_summary = {}

\* C1 (amended): on a frame with no rows or no columns missing_cells_pct is
\* 0.0, row_duplicates is 0 and the sample is empty; both summaries are empty
\* when there is no column, and with columns but no rows each summary has one
\* entry per column of its class, a categorical entry being unique = 0 with
\* no top value.
C1_Amended ==
    (Answered /\ (R_ = 0 \/ C_ = 0)) =>
        /\ IsZero(report.missing.missing_cells_pct)
        /\ report.duplicates.row_duplicates = 0
        /\ report.sample = <<>>
        /\ C_ = 0 => /\ DOMAIN report.numeric_summary = {}
                     /\ DOMAIN report.categorical_summary = {}
        /\ R_ = 0 => /\ DOMAIN report.numeric_summary = NumericNames
                     /\ DOMAIN report.categorical_summary = TextNames
                     /\ \A nm \in TextNames :
                          /\ report.categorical_summary[nm].unique = 0
                          /\ report.categorical_summary[nm].top_values = <<>>

C1_Witness ==
    /\ Answered
    /\ R_ = 0
    /\ C_ > 0
    /\ DOMAIN report.categorical_summary # {}

\* the suffix test written out: the name is some prefix followed by .csv or .tsv
HasCsvOrTsvSuffix(fn) ==
    \E n \in 0..Len(fn) : \E suffix \in {<<".", "c", "s", "v">>, <<".", "t", "s", "v">>} :
        fn = SubSeq(fn, 1, n) \o suffix

Called(f) == \E i \in 1..Len(calls) : calls[i] = f

\* C2: a POST /analyze/csv whose filename does not end in ".csv" or ".tsv"
\* (case-sensitive) is answered 400 without read_csv or analyze_dataframe ever
\* being called; analyze_dataframe is called only once the suffix check has
\* passed and read_csv has returned a frame.
C2_SuffixGate ==
    /\ (kind = "csv" /\ ~HasCsvOrTsvSuffix(filename)) =>
          /\ calls = <<>>
          /\ pc \in {"csv_suffix", "done"}
          /\ pc = "done" => status = 400
    /\ (kind = "csv" /\ Called("analyze_dataframe")) =>
          /\ HasCsvOrTsvSuffix(filename)
          /\ calls = <<"read_csv", "analyze_dataframe">>
          /\ status # 400
          /\ num_cols(df) >= 1

C2_Witness ==
    /\ kind = "csv"
    /\ filename = <<"d", ".", "C", "S", "V">>
    /\ pc = "done"
    /\ status = 400
    /\ calls = <<>>

ReportFields ==
    {"shape", "columns", "dtypes", "memory_usage_bytes", "missing", "duplicates",
     "numeric_summary", "categorical_summary", "correlations", "sample"}

\* C3: every request to /analyze/csv or /analyze/json ends either in a 400
\* raised before analyze_dataframe runs, or in a 200 carrying the report with
\* its ten fields; nothing fails inside analyze_dataframe.
C3_TwoOutcomes ==
    pc = "done" =>
        \/ status = 400 /\ ~Called("analyze_dataframe") /\ report = NoReport
        \/ status = 200 /\ DOMAIN report = ReportFields


\* the coefficient of the columns at positions i and j of df
CorrAt(i, j) == corr(df.cols[i], df.cols[j])
Position(nm) == CHOOSE k \in 1..C_ : df.cols[k].name = nm

\* C4: every listed correlation has abs(corr) >= 0.5; there are at most 20;
\* they are in non-increasing order of abs(corr); no unordered pair of columns
\* is listed twice and col_a comes before col_b in the column order; the list
\* is empty when fewer than two columns are numeric.
C4_CorrelationList ==
    Answered =>
        LET cs == report.correlations
        IN /\ Len(cs) <= 20
           /\ \A i \in 1..Len(cs) :
                /\ ~cs[i].corr.nan
                /\ 4 * cs[i].corr.p >= cs[i].corr.q
                /\ cs[i].col_a \in NumericNames
                /\ cs[i].col_b \in NumericNames
                /\ Position(cs[i].col_a) < Position(cs[i].col_b)
           /\ \A i, j \in 1..Len(cs) :
                i < j => /\ cs[i].corr.p * cs[j].corr.q >= cs[j].corr.p * cs[i].corr.q
                         /\ {cs[i].col_a, cs[i].col_b} # {cs[j].col_a, cs[j].col_b}
           /\ Cardinality(NumericNames) < 2 => cs = <<>>

C4_Witness ==
    /\ Answered
    /\ Len(report.correlations) = 20
    /\ \E i, j \in 1..20 :
          report.correlations[i].corr.p * report.correlations[j].corr.q
            > report.correlations[j].corr.p * report.correlations[i].corr.q

\* the sum of per_column[*].count over the columns of df
PerColumnSum ==
    SumSeq([k \in 1..C_ |->
              IF df.cols[k].name \in DOMAIN report.missing.per_column
              THEN report.missing.per_column[df.cols[k].name].count ELSE 0])

\* C5: with rows and columns, per_column has an entry for every column whose
\* count is the number of missing cells of the column, between 0 and R, and
\* total_missing_cells is the sum of the counts; with no rows or no columns
\* per_column is empty and total_missing_cells and missing_cells_pct are 0.
C5_MissingReport ==
    Answered =>
        LET m == report.missing
        IN /\ m.total_missing_cells = PerColumnSum
           /\ (R_ > 0 /\ C_ > 0) =>
                /\ DOMAIN m.per_column = ColumnSet(df)
                /\ \A k \in 1..C_ :
                     /\ m.per_column[df.cols[k].name].count = MissingIn(k)
                     /\ m.per_column[df.cols[k].name].count >= 0
                     /\ m.per_column[df.cols[k].name].count <= R_
           /\ (R_ = 0 \/ C_ = 0) =>
                /\ DOMAIN m.per_column = {}
                /\ m.total_missing_cells = 0
                /\ IsZero(m.missing_cells_pct)

C5_Witness ==
    /\ Answered
    /\ C_ = 2
    /\ report.missing.total_missing_cells = 3
    /\ \A k \in 1..C_ : MissingIn(k) > 0

\* sums over a top_values list
TopCounts(tv) == SumSeq([i \in 1..Len(tv) |-> tv[i].count])
\* the percentages share the denominator max(R, 1): their sum against 100
TopPctNum(tv) == SumSeq([i \in 1..Len(tv) |-> tv[i].pct.n])
Total_ == IF R_ = 0 THEN 1 ELSE R_

TopValuesBounded(tv) ==
    /\ Len(tv) <= 5
    /\ \A i, j \in 1..Len(tv) : i < j => tv[i].count >= tv[j].count
    /\ \A i \in 1..Len(tv) : tv[i].pct.d = Total_
    /\ TopCounts(tv) <= R_
    /\ TopPctNum(tv) <= 100 * Total_

HasMissing(nm) == \E i \in 1..R_ : Column(df, nm).cells[i] = NaN

LaterCopies ==
    {i \in 1..R_ : \E j \in 1..(i - 1) :
        \A k \in 1..C_ : df.cols[k].cells[i] = df.cols[k].cells[j]}

\* C7 (as stated): row_duplicates is the number of rows equal on every column
\* to some earlier row.
C7_Original == Answered => report.duplicates.row_duplicates = Cardinality(LaterCopies)

\* C7 (amended): the same for a frame with at least one column; for a frame
\* without columns row_duplicates is 0.
C7_Amended ==
    Answered =>
        report.duplicates.row_duplicates = IF C_ = 0 THEN 0 ELSE Cardinality(LaterCopies)

C7_Witness ==
    /\ Answered
    /\ R_ = 3
    /\ C_ = 2
    /\ Row(df, 1) = Row(df, 2)
    /\ Row(df, 3) # Row(df, 1)
    /\ report.duplicates.row_duplicates = 1


\* the k-th row of d as a mapping from column name to cell
RowRecord(d, k) == [nm \in ColumnSet(d) |-> Column(d, nm).cells[k]]

ShapeAndSample(d, r, withoutColumns) ==
    /\ r.shape.rows = num_rows(d)
    /\ r.shape.columns = num_cols(d)
    /\ Len(r.sample) = (IF withoutColumns THEN 0 ELSE Min(num_rows(d), 5))
    /\ \A k \in 1..Len(r.sample) : r.sample[k] = RowRecord(d, k)

\* C8 (as stated): the sample has min(R, 5) entries, the k-th being the k-th
\* row of the frame; shape.rows = R and shape.columns = C; the analysis leaves
\* the frame as it was.
C8_Original ==
    [][/\ (pc' = "done" /\ status' = 200) => ShapeAndSample(df', report', FALSE)
       /\ pc = "analyze" => df' = df]_vars

\* C8 (amended): the same for a frame with at least one column; the sample of
\* a frame without columns is empty.
C8_Amended ==
    [][/\ (pc' = "done" /\ status' = 200) =>
              ShapeAndSample(df', report', num_cols(df') = 0)
       /\ pc = "analyze" => df' = df]_vars

C8_Witness ==
    /\ Answered
    /\ R_ = 6
    /\ Len(report.sample) = 5
    /\ report.sample[5] = RowRecord(df, 5)
    /\ report.sample[5] # RowRecord(df, 6)

\* C9: the keys of numeric_summary are the int64 and float64 columns, the
\* keys of categorical_summary are the object columns, the two key sets are
\* disjoint sets of columns, and a column of another dtype (bool) is a key of
\* neither.
C9_Classification ==
    Answered =>
        /\ DOMAIN report.numeric_summary = NumericNames
        /\ DOMAIN report.categorical_summary = TextNames
        /\ DOMAIN report.numeric_summary \cap DOMAIN report.categorical_summary = {}
        /\ DOMAIN report.numeric_summary \cup DOMAIN report.categorical_summary
              \subseteq ColumnSet(df)
        /\ \A k \in 1..C_ :
              df.cols[k].dtype = "bool" =>
                  /\ df.cols[k].name \notin DOMAIN report.numeric_summary
                  /\ df.cols[k].name \notin DOMAIN report.categorical_summary

C9_Witness ==
    /\ Answered
    /\ R_ > 0
    /\ \E k \in 1..C_ : df.cols[k].dtype = "bool"
    /\ DOMAIN report.numeric_summary # {}

\* the pairs of numeric columns, by position, whose coefficient is defined and
\* at least 0.5 in absolute value
Qualifying ==
    {ij \in (1..C_) \X (1..C_) :
        /\ ij[1] < ij[2]
        /\ IsNumericCol(ij[1]) /\ IsNumericCol(ij[2])
        /\ ~CorrAt(ij[1], ij[2]).nan
        /\ 4 * CorrAt(ij[1], ij[2]).p >= CorrAt(ij[1], ij[2]).q}

Listed(cs) == {<<Position(cs[k].col_a), Position(cs[k].col_b)>> : k \in 1..Len(cs)}

\* C10: the list holds min(20, number of qualifying pairs) distinct qualifying
\* pairs, each with its coefficient (so every qualifying pair when there are at
\* most 20); no omitted qualifying pair has a larger abs(corr) than a listed
\* one; the list is the one obtained by filtering, then sorting, then
\* truncating.
C10_CorrelationsComplete ==
    Answered =>
        LET cs == report.correlations
            nc == numeric_columns(df)
        IN /\ Len(cs) = Min(20, Cardinality(Qualifying))
           /\ Cardinality(Listed(cs)) = Len(cs)
           /\ Listed(cs) \subseteq Qualifying
           /\ \A k \in 1..Len(cs) :
                cs[k].corr = CorrAt(Position(cs[k].col_a), Position(cs[k].col_b))
           /\ \A ij \in Qualifying \ Listed(cs) : \A k \in 1..Len(cs) :
                CorrAt(ij[1], ij[2]).p * cs[k].corr.q <= cs[k].corr.p * CorrAt(ij[1], ij[2]).q
           /\ cs = Take(SortByAbs(KeepStrong(PairLoop(df, nc, 1, 2))), 20)

C10_Witness ==
    /\ Answered
    /\ Cardinality(Qualifying) > 20
    /\ \E ij \in Qualifying \ Listed(report.correlations) : \E k \in 1..20 :
          CorrAt(ij[1], ij[2]).p * report.correlations[k].corr.q
            < report.correlations[k].corr.p * CorrAt(ij[1], ij[2]).q

====
